---- MODULE Spec2Model ----
(***************************************************************************)
(* Favorites synchronisation of the Countries app.                         *)
(*                                                                         *)
(* The model follows the two screens that talk to the document store:      *)
(*   screens/CountryDetailsScreen.js   addCountryToFavorites,              *)
(*                                     getCountryFromDB, getCountryDetails *)
(*   screens/FavoriteCountriesScreen.js getCountriesFromDB,                *)
(*                                     deleteCountryFromFavorites          *)
(* Every async function is cut at its awaits.  A store call is "sent" by   *)
(* the synchronous part that issues it, takes effect in the store in a     *)
(* step of its own, and the code after the await runs in a later step.     *)
(* Several sessions (devices) of one signed-in user share the document.    *)
(* Signing in and out follows App.js logoutPressed and LoginScreen.js       *)
(* loginPressed with its form; SpecLoaded adds them to a run that starts   *)
(* in mid-use.  SpecFair is a run in which every call in flight ends.      *)
(***************************************************************************)
EXTENDS Integers, Sequences, FiniteSets, Bags, TLC

\* ---------------------------------------------------------------- bounds
\* user gestures (row click, star press, tab switch, trash press) in a run
MaxEvents == 3

\* ------------------------------------------------------------- the data
Users == {"u1", "u2"}
NoUser == "null"
Sessions == {"s1", "s2"}
Codes == {"US", "CA", "MX"}
\* the rows of the countries list the user taps in a run
Browsed == {"US", "CA"}

NameOf(c) == CASE c = "US" -> "United States" [] c = "CA" -> "Canada" [] OTHER -> "Mexico"
CapitalOf(c) == CASE c = "US" -> "Washington" [] c = "CA" -> "Ottawa" [] OTHER -> "Mexico City"
FlagOf(c) == CASE c = "US" -> "us.png" [] c = "CA" -> "ca.png" [] OTHER -> "mx.png"
LatOf(c) == CASE c = "US" -> "38.9" [] c = "CA" -> "45.4" [] OTHER -> "19.4"
LngOf(c) == CASE c = "US" -> "-77.0" [] c = "CA" -> "-75.7" [] OTHER -> "-99.1"

\* the object getCountryDetails builds from the REST answer for code c
countryDetails(c) ==
  [cca2 |-> c, name |-> NameOf(c), capital |-> CapitalOf(c),
   flagURL |-> FlagOf(c), latitude |-> LatOf(c), longitude |-> LngOf(c)]

\* useState([]): before the fetch resolves the state is an empty array, every
\* property of which reads as undefined
Undefined == "undefined"
InitialDetails ==
  [cca2 |-> Undefined, name |-> Undefined, capital |-> Undefined,
   flagURL |-> Undefined, latitude |-> Undefined, longitude |-> Undefined]

\* a document snapshot: exists() and data().countries
NoDoc == [exists |-> FALSE, countries |-> << >>]
Doc(cs) == [exists |-> TRUE, countries |-> cs]

Range(s) == {s[k] : k \in 1..Len(s)}
DetailsSeq(codes) == [k \in 1..Len(codes) |-> countryDetails(codes[k])]

\* the documents a user can hold before the run: none, a single favourite, or
\* several favourites, as earlier successful adds left them (one entry per
\* code, in the order added)
ReachableDocs ==
  {NoDoc, Doc(DetailsSeq(<<"US">>)), Doc(DetailsSeq(<<"US", "CA", "MX">>))}

\* ---------------------------------------------------------------- state
VARIABLES
  store,                    \* favoriteCountries/<uid>: the document of each user
  currentUser,              \* auth.currentUser of each session
  tabsMount,                \* how often the tab navigator was mounted anew
  emailFromUI,              \* LoginScreen: useState
  passwordFromUI,           \* LoginScreen: useState
  loginErrorFromUI,         \* LoginScreen: useState
  tab,                      \* the focused bottom tab of each session
  detailsMount,             \* how often the details screen was mounted
  detailsFetch,             \* the REST fetch of the mounted details screen
  cca2FromPreviousScreen,   \* CountryDetailsScreen: route parameter
  countryDetailsFromAPI,    \* CountryDetailsScreen: useState
  countryAlreadyAdded,      \* CountryDetailsScreen: useState (the star)
  errorFromAPI,             \* CountryDetailsScreen: useState
  countriesFromDB,          \* FavoriteCountriesScreen: useState
  emptyFavoritesFromDB,     \* FavoriteCountriesScreen: useState
  listOwner,                \* whose document countriesFromDB was read from
  reportedRemoved,          \* codes alerted "was deleted" and not added since
  ops,                      \* the async calls in flight (a bag of records)
  alert,                    \* the alert() the last step raised, if any
  events                    \* user gestures so far

storeVars == <<store>>
loginVars == <<emailFromUI, passwordFromUI, loginErrorFromUI>>
authVars == <<currentUser, tabsMount, loginVars>>
detailsVars == <<detailsMount, detailsFetch, cca2FromPreviousScreen,
                 countryDetailsFromAPI, countryAlreadyAdded, errorFromAPI>>
favVars == <<countriesFromDB, emptyFavoritesFromDB, listOwner, reportedRemoved>>
vars == <<store, currentUser, tabsMount, loginVars, tab, detailsMount, detailsFetch,
          cca2FromPreviousScreen, countryDetailsFromAPI, countryAlreadyAdded,
          errorFromAPI, countriesFromDB, emptyFavoritesFromDB, listOwner,
          reportedRemoved, ops, alert, events>>

NoAlert == [sess |-> "-", msg |-> "none", name |-> "-"]
Alert(s, m, n) == [sess |-> s, msg |-> m, name |-> n]

InFlight == BagToSet(ops)
\* an async function starts, moves on to its next await, or returns
Start(op) == ops' = ops (+) SetToBag({op})
Continue(op, next) == ops' = (ops (-) SetToBag({op})) (+) SetToBag({next})
Finish(op) == ops' = ops (-) SetToBag({op})

\* auth.currentUser.uid, evaluated where the document reference is built
currentUserUid(s) == currentUser[s]

\* an async function that has just issued `call` and is suspended at its await
Sent(kind, s, mount, cca2, country, call, upd) ==
  [kind |-> kind, sess |-> s, uid |-> currentUserUid(s), mount |-> mount,
   cca2 |-> cca2, country |-> country, call |-> call, phase |-> "sent",
   snap |-> NoDoc, upd |-> upd]

Init ==
  /\ store \in [Users -> ReachableDocs]
  /\ \A u \in Users : u # "u1" => store[u] = NoDoc
  /\ currentUser = [s \in Sessions |-> "u1"]
  /\ tabsMount = [s \in Sessions |-> 0]
  /\ emailFromUI = [s \in Sessions |-> ""]
  /\ passwordFromUI = [s \in Sessions |-> ""]
  /\ loginErrorFromUI = [s \in Sessions |-> ""]
  /\ tab = [s \in Sessions |-> "Countries"]
  /\ detailsMount = [s \in Sessions |-> 0]
  /\ detailsFetch = [s \in Sessions |-> "none"]
  /\ cca2FromPreviousScreen = [s \in Sessions |-> "-"]
  /\ countryDetailsFromAPI = [s \in Sessions |-> InitialDetails]
  /\ countryAlreadyAdded = [s \in Sessions |-> FALSE]
  /\ errorFromAPI = [s \in Sessions |-> FALSE]
  /\ countriesFromDB = [s \in Sessions |-> << >>]
  /\ emptyFavoritesFromDB = [s \in Sessions |-> TRUE]
  /\ listOwner = [s \in Sessions |-> NoUser]
  /\ reportedRemoved = [s \in Sessions |-> {}]
  /\ ops = EmptyBag
  /\ alert = NoAlert
  /\ events = 0


\* ------------------------------------------------- the pure computations
\* addCountryToFavorites / getCountryFromDB: let favoriteCountries = [] and
\* the two ifs that fill it from the snapshot
favoriteCountriesOf(snap) ==
  IF snap.exists THEN snap.countries ELSE << >>

\* a find whose callback never matches
isCountryAlreadyAddedNever(favoriteCountries, cca2) == FALSE

\* favoriteCountries.find((favCountry) => favCountry.cca2 === cca2), used as a
\* truth value (every stored entry is an object, hence truthy)
isCountryAlreadyAdded(favoriteCountries, cca2) ==
  \E k \in 1..Len(favoriteCountries) : favoriteCountries[k].cca2 = cca2

\* unshift in place of push
updatedCountriesUnshift(favoriteCountries, country) ==
  <<country>> \o favoriteCountries

\* Array.from(favoriteCountries) followed by push(country)
updatedCountries(favoriteCountries, country) ==
  Append(favoriteCountries, country)

\* the filtered list written back to front
updatedFavoriteCountriesReversed(list, country) ==
  LET kept == SelectSeq(list, LAMBDA i : i.cca2 # country.cca2)
  IN [k \in 1..Len(kept) |-> kept[Len(kept) + 1 - k]]

\* countriesFromDB.filter((i) => i.cca2 !== country.cca2)
updatedFavoriteCountries(list, country) ==
  SelectSeq(list, LAMBDA i : i.cca2 # country.cca2)

\* the else branch missing: the filtered list is always written back
deleteCallAlwaysUpdate(updated) == "updateDoc"

\* the two branches of the if exchanged
deleteCallSwapped(updated) ==
  IF Len(updated) > 0 THEN "deleteDoc" ELSE "updateDoc"

\* deleteCountryFromFavorites: the store call its if/else chooses
deleteCall(updated) ==
  IF Len(updated) > 0 THEN "updateDoc" ELSE "deleteDoc"

\* getCountriesFromDB: the condition under which the list is shown
hasCountries(snap) ==
  snap.exists /\ Len(snap.countries) > 0

\* ---------------------------------------------------------- user gestures
CanAct(s) == events < MaxEvents
SignedIn(s) == currentUser[s] # NoUser

\* the handler builds its document reference inside try: with a user it
\* issues the call and suspends; with auth.currentUser null the read of .uid
\* throws, the catch block alerts and no call is issued
StartOrCatch(s, op, msg, name) ==
  IF SignedIn(s)
  THEN Start(op) /\ alert' = NoAlert
  ELSE ops' = ops /\ alert' = Alert(s, msg, name)

\* CountriesListScreen.rowClicked navigates to Details; the screen mounts with
\* fresh state and its effect starts getCountryDetails and getCountryFromDB
rowClicked(s, c) ==
  /\ CanAct(s)
  /\ tab[s] = "Countries"
  /\ detailsMount' = [detailsMount EXCEPT ![s] = @ + 1]
  /\ cca2FromPreviousScreen' = [cca2FromPreviousScreen EXCEPT ![s] = c]
  /\ countryDetailsFromAPI' = [countryDetailsFromAPI EXCEPT ![s] = InitialDetails]
  /\ countryAlreadyAdded' = [countryAlreadyAdded EXCEPT ![s] = FALSE]
  /\ errorFromAPI' = [errorFromAPI EXCEPT ![s] = FALSE]
  /\ detailsFetch' = [detailsFetch EXCEPT ![s] = "pending"]
  /\ StartOrCatch(s, Sent("query", s, detailsMount[s] + 1, c, InitialDetails, "getDoc", << >>),
                  "Error getting from the database", c)
  /\ events' = events + 1
  /\ UNCHANGED <<storeVars, authVars, tab, favVars>>

\* getCountryDetails after its awaits: the object is built and stored
getCountryDetailsOk(s) ==
  /\ detailsFetch[s] = "pending"
  /\ detailsFetch' = [detailsFetch EXCEPT ![s] = "done"]
  /\ countryDetailsFromAPI' =
       [countryDetailsFromAPI EXCEPT ![s] = countryDetails(cca2FromPreviousScreen[s])]
  /\ alert' = NoAlert
  /\ UNCHANGED <<storeVars, authVars, tab, detailsMount, cca2FromPreviousScreen,
                 countryAlreadyAdded, errorFromAPI, favVars, ops, events>>

\* getCountryDetails: the catch branch
getCountryDetailsFails(s) ==
  /\ detailsFetch[s] = "pending"
  /\ detailsFetch' = [detailsFetch EXCEPT ![s] = "done"]
  /\ errorFromAPI' = [errorFromAPI EXCEPT ![s] = TRUE]
  /\ alert' = NoAlert
  /\ UNCHANGED <<storeVars, authVars, tab, detailsMount, cca2FromPreviousScreen,
                 countryDetailsFromAPI, countryAlreadyAdded, favVars, ops, events>>

\* the star Pressable, rendered unless errorFromAPI: addCountryToFavorites is
\* called with the current countryDetailsFromAPI and runs up to await getDoc
pressAdd(s) ==
  /\ CanAct(s)
  /\ tab[s] = "Countries"
  /\ cca2FromPreviousScreen[s] \in Codes
  /\ ~errorFromAPI[s]
  /\ StartOrCatch(s, Sent("add", s, detailsMount[s], "-", countryDetailsFromAPI[s], "getDoc", << >>),
                  "could not be added", countryDetailsFromAPI[s].name)
  /\ events' = events + 1
  /\ UNCHANGED <<storeVars, authVars, tab, detailsVars, favVars>>

\* the Favorite Countries tab gains focus: the effect calls getCountriesFromDB
focusFavorites(s) ==
  /\ CanAct(s)
  /\ tab[s] = "Countries"
  /\ tab' = [tab EXCEPT ![s] = "Favorites"]
  /\ StartOrCatch(s, Sent("refresh", s, tabsMount[s], "-", InitialDetails, "getDoc", << >>),
                  "Failed to get countries from the database", "-")
  /\ events' = events + 1
  /\ UNCHANGED <<storeVars, authVars, detailsVars, favVars>>

\* the Countries tab gains focus again (its list fetch touches no favourite)
focusCountries(s) ==
  /\ events < MaxEvents
  /\ tab[s] = "Favorites"
  /\ tab' = [tab EXCEPT ![s] = "Countries"]
  /\ alert' = NoAlert
  /\ events' = events + 1
  /\ UNCHANGED <<storeVars, authVars, detailsVars, favVars, ops>>

\* the trash Pressable of row k of the rendered FlatList:
\* deleteCountryFromFavorites filters the cached list and issues the call
pressDelete(s, k) ==
  /\ CanAct(s)
  /\ tab[s] = "Favorites"
  /\ ~emptyFavoritesFromDB[s]
  /\ k \in 1..Len(countriesFromDB[s])
  /\ LET country == countriesFromDB[s][k]
         updated == updatedFavoriteCountries(countriesFromDB[s], country)
     IN StartOrCatch(s, Sent("delete", s, tabsMount[s], "-", country, deleteCall(updated), updated),
                     "could not be deleted", country.name)
  /\ events' = events + 1
  /\ UNCHANGED <<storeVars, authVars, tab, detailsVars, favVars>>

\* -------------------------------------------------- the document store
\* Firestore, as the screens use it: getDoc returns the whole document, setDoc
\* replaces it, updateDoc replaces the named field of an existing document and
\* is rejected when there is none, deleteDoc removes it.  A call that is
\* rejected (network, permissions, updateDoc without a document, a refused
\* value) leaves the store as it was: the awaited promise rejects and the catch
\* block of the caller runs, which the ...Catch actions model.
setDoc(doc, data) == Doc(data)

\* an update that merges: what is stored and not in the data is kept after it
updateDocArrayUnion(doc, data) ==
  Doc(data \o SelectSeq(doc.countries, LAMBDA e : e \notin Range(data)))

updateDoc(doc, data) == Doc(data)
deleteDoc(doc) == NoDoc

Awaiting(op, call) == op \in InFlight /\ op.phase = "sent" /\ op.call = call
Resolve(op, snap) ==
  Continue(op, [op EXCEPT !.phase = "resolved", !.snap = snap])

storeGetDoc(op) ==
  /\ Awaiting(op, "getDoc")
  /\ Resolve(op, store[op.uid])
  /\ alert' = NoAlert
  /\ UNCHANGED <<storeVars, authVars, tab, detailsVars, favVars, events>>

\* setDoc(docRef, { countries: updatedCountries }); an array inside the array
\* (the not yet fetched details, []) is refused by the store
storeSetDoc(op) ==
  /\ Awaiting(op, "setDoc")
  /\ InitialDetails \notin Range(op.upd)
  /\ store' = [store EXCEPT ![op.uid] = setDoc(@, op.upd)]
  /\ Resolve(op, op.snap)
  /\ alert' = NoAlert
  /\ UNCHANGED <<authVars, tab, detailsVars, favVars, events>>

\* an update that creates the document when there is none
storeUpdateDocUpsert(op) ==
  /\ Awaiting(op, "updateDoc")
  /\ store' = [store EXCEPT ![op.uid] = updateDoc(@, op.upd)]
  /\ Resolve(op, op.snap)
  /\ alert' = NoAlert
  /\ UNCHANGED <<authVars, tab, detailsVars, favVars, events>>

\* updateDoc(countriesRef, { countries: updatedFavoriteCountries })
storeUpdateDoc(op) ==
  /\ Awaiting(op, "updateDoc")
  /\ store[op.uid].exists
  /\ store' = [store EXCEPT ![op.uid] = updateDoc(@, op.upd)]
  /\ Resolve(op, op.snap)
  /\ alert' = NoAlert
  /\ UNCHANGED <<authVars, tab, detailsVars, favVars, events>>

\* deleteDoc(doc(db, "favoriteCountries", uid))
storeDeleteDoc(op) ==
  /\ Awaiting(op, "deleteDoc")
  /\ store' = [store EXCEPT ![op.uid] = deleteDoc(@)]
  /\ Resolve(op, op.snap)
  /\ alert' = NoAlert
  /\ UNCHANGED <<authVars, tab, detailsVars, favVars, events>>

\* ------------------------------------------- the code after each await
Resumes(op, kind, call) ==
  op \in InFlight /\ op.kind = kind /\ op.call = call /\ op.phase = "resolved"
\* the awaited call of an async function of this kind rejects
Rejects(op, kind) == op \in InFlight /\ op.kind = kind /\ op.phase = "sent"
\* a setter of a details screen that was unmounted meanwhile changes nothing
Mounted(op) == detailsMount[op.sess] = op.mount
\* likewise for the favourites screen, which lives as long as the tab navigator
FavMounted(op) == tabsMount[op.sess] = op.mount

\* the membership test skipped: every add writes
alreadyInFavoritesNever(snap, country) == FALSE

\* addCountryToFavorites after await getDoc: TRUE in the branch that alerts
\* "already in your favorites", FALSE in the two branches that setDoc
alreadyInFavorites(snap, country) ==
  snap.exists /\ isCountryAlreadyAdded(favoriteCountriesOf(snap), country.cca2)

addCountryToFavoritesAfterGetDoc(op) ==
  /\ Resumes(op, "add", "getDoc")
  /\ IF alreadyInFavorites(op.snap, op.country)
        THEN /\ Finish(op)
             /\ alert' = Alert(op.sess, "is already in your favorites", op.country.name)
        ELSE /\ Continue(op,
                          [op EXCEPT !.call = "setDoc", !.phase = "sent",
                             !.upd = updatedCountries(favoriteCountriesOf(op.snap), op.country)])
             /\ alert' = NoAlert
  /\ UNCHANGED <<storeVars, authVars, tab, detailsVars, favVars, events>>

\* the star after await setDoc: setCountryAlreadyAdded(true)
starAfterSetDoc(op, star) ==
  IF Mounted(op) THEN TRUE ELSE star

addCountryToFavoritesAfterSetDoc(op) ==
  /\ Resumes(op, "add", "setDoc")
  /\ countryAlreadyAdded' =
          [countryAlreadyAdded EXCEPT ![op.sess] = starAfterSetDoc(op, @)]
  /\ alert' = Alert(op.sess, "has been added", op.country.name)
  /\ reportedRemoved' = [s \in Sessions |-> reportedRemoved[s] \ {op.country.cca2}]
  /\ Finish(op)
  /\ UNCHANGED <<storeVars, authVars, tab, detailsMount, detailsFetch,
                 cca2FromPreviousScreen, countryDetailsFromAPI, errorFromAPI,
                 countriesFromDB, emptyFavoritesFromDB, listOwner, events>>

\* an optimistic star: set although the call was rejected
starInCatchOptimistic(op, star) == TRUE

\* the star in the catch block of addCountryToFavorites: no setter is called
starInCatch(op, star) == star

\* a catch block that only logs: the failure is swallowed without an alert
addCountryToFavoritesCatchSilent(op) ==
  /\ Rejects(op, "add")
  /\ alert' = NoAlert
  /\ Finish(op)
  /\ UNCHANGED <<storeVars, authVars, tab, detailsVars, favVars, events>>

\* addCountryToFavorites: await getDoc or await setDoc rejects
addCountryToFavoritesCatch(op) ==
  /\ Rejects(op, "add")
  /\ countryAlreadyAdded' =
          [countryAlreadyAdded EXCEPT ![op.sess] = starInCatch(op, @)]
  /\ alert' = Alert(op.sess, "could not be added", op.country.name)
  /\ Finish(op)
  /\ UNCHANGED <<storeVars, authVars, tab, detailsMount, detailsFetch,
                 cca2FromPreviousScreen, countryDetailsFromAPI, errorFromAPI,
                 favVars, events>>

\* find without its predicate: any stored entry counts as a match
countryFoundAnyEntry(snap, cca2) ==
  snap.exists /\ Len(favoriteCountriesOf(snap)) > 0

\* getCountryFromDB: the value of isCountryAlreadyAdded it reaches, false when
\* the snapshot does not exist
countryFound(snap, cca2) ==
  snap.exists /\ isCountryAlreadyAdded(favoriteCountriesOf(snap), cca2)

\* a query that creates the missing document instead of only reading
getCountryFromDBCreatesDoc(op) ==
  /\ Resumes(op, "query", "getDoc")
  /\ IF op.snap.exists
     THEN Finish(op)
     ELSE Continue(op, [op EXCEPT !.call = "setDoc", !.phase = "sent",
                                  !.upd = <<countryDetails(op.cca2)>>])
  /\ alert' = NoAlert
  /\ UNCHANGED <<storeVars, authVars, tab, detailsVars, favVars, events>>

getCountryFromDBAfterGetDoc(op) ==
  /\ Resumes(op, "query", "getDoc")
  /\ countryAlreadyAdded' =
          [countryAlreadyAdded EXCEPT ![op.sess] =
             IF countryFound(op.snap, op.cca2) /\ Mounted(op) THEN TRUE ELSE @]
  /\ alert' = NoAlert
  /\ Finish(op)
  /\ UNCHANGED <<storeVars, authVars, tab, detailsMount, detailsFetch,
                 cca2FromPreviousScreen, countryDetailsFromAPI, errorFromAPI,
                 favVars, events>>

\* getCountryFromDB: await getDoc rejects
getCountryFromDBCatch(op) ==
  /\ Rejects(op, "query")
  /\ alert' = Alert(op.sess, "Error getting from the database", op.cca2)
  /\ Finish(op)
  /\ UNCHANGED <<storeVars, authVars, tab, detailsVars, favVars, events>>

getCountriesFromDBAfterGetDoc(op) ==
  /\ Resumes(op, "refresh", "getDoc")
  /\ LET show == hasCountries(op.snap) /\ FavMounted(op)
     IN /\ emptyFavoritesFromDB' =
             [emptyFavoritesFromDB EXCEPT ![op.sess] = IF show THEN FALSE ELSE @]
        /\ countriesFromDB' =
             [countriesFromDB EXCEPT ![op.sess] = IF show THEN op.snap.countries ELSE @]
        /\ listOwner' = [listOwner EXCEPT ![op.sess] = IF show THEN op.uid ELSE @]
  /\ UNCHANGED reportedRemoved
  /\ alert' = NoAlert
  /\ Finish(op)
  /\ UNCHANGED <<storeVars, authVars, tab, detailsVars, events>>

\* getCountriesFromDB: await getDoc rejects
getCountriesFromDBCatch(op) ==
  /\ Rejects(op, "refresh")
  /\ alert' = Alert(op.sess, "Failed to get countries from the database", "-")
  /\ Finish(op)
  /\ UNCHANGED <<storeVars, authVars, tab, detailsVars, favVars, events>>

\* deleteCountryFromFavorites after await updateDoc: the list is set, the
\* refresh getCountriesFromDB() is started without await (it goes on in place
\* of the delete; with auth.currentUser null it ends in its own catch block,
\* whose alert comes before this one), then the alert
deleteCountryFromFavoritesAfterUpdateDoc(op) ==
  /\ Resumes(op, "delete", "updateDoc")
  /\ countriesFromDB' =
          [countriesFromDB EXCEPT ![op.sess] = IF FavMounted(op) THEN op.upd ELSE @]
  /\ IF SignedIn(op.sess)
        THEN Continue(op, Sent("refresh", op.sess, op.mount, "-", InitialDetails, "getDoc", << >>))
        ELSE Finish(op)
  /\ alert' = Alert(op.sess, "was deleted from your favorites", op.country.name)
  /\ reportedRemoved' = [reportedRemoved EXCEPT ![op.sess] = @ \cup {op.country.cca2}]
  /\ UNCHANGED <<storeVars, authVars, tab, detailsVars, emptyFavoritesFromDB,
                 listOwner, events>>

deleteCountryFromFavoritesAfterDeleteDoc(op) ==
  /\ Resumes(op, "delete", "deleteDoc")
  /\ emptyFavoritesFromDB' =
          [emptyFavoritesFromDB EXCEPT ![op.sess] = IF FavMounted(op) THEN TRUE ELSE @]
  /\ alert' = Alert(op.sess, "was deleted from your favorites", op.country.name)
  /\ reportedRemoved' = [reportedRemoved EXCEPT ![op.sess] = @ \cup {op.country.cca2}]
  /\ Finish(op)
  /\ UNCHANGED <<storeVars, authVars, tab, detailsVars, countriesFromDB, listOwner, events>>

\* an optimistic list: the filtered list is shown although the call was rejected
favoritesInCatchOptimistic(op, list, empty) == <<op.upd, empty>>

\* the favourites screen's state in the catch block of
\* deleteCountryFromFavorites: no setter is called
favoritesInCatch(op, list, empty) == <<list, empty>>

\* deleteCountryFromFavorites: await updateDoc or await deleteDoc rejects
deleteCountryFromFavoritesCatch(op) ==
  /\ Rejects(op, "delete")
  /\ LET kept == favoritesInCatch(op, countriesFromDB[op.sess], emptyFavoritesFromDB[op.sess])
     IN /\ countriesFromDB' = [countriesFromDB EXCEPT ![op.sess] = kept[1]]
        /\ emptyFavoritesFromDB' = [emptyFavoritesFromDB EXCEPT ![op.sess] = kept[2]]
        /\ alert' = Alert(op.sess, "could not be deleted", op.country.name)
  /\ Finish(op)
  /\ UNCHANGED <<storeVars, authVars, tab, detailsVars, listOwner, reportedRemoved, events>>

\* ------------------------------------------------- signing in and out
\* the accounts made beforehand in Firebase Auth: the email of each is its
\* user id here, and all have this password
Emails == Users
Password == "secret"

\* the user that signInWithEmailAndPassword authenticates, none when the
\* email is unknown or empty or the password is wrong or empty
accountOf(email, password) ==
  IF email \in Emails /\ password = Password THEN email ELSE NoUser

\* the user fills in the two TextInputs of the Login screen, whose
\* onChangeText are setEmailFromUI and setPasswordFromUI
onChangeText(s, email, password) ==
  /\ CanAct(s)
  /\ tab[s] = "Login"
  /\ <<email, password>> # <<emailFromUI[s], passwordFromUI[s]>>
  /\ emailFromUI' = [emailFromUI EXCEPT ![s] = email]
  /\ passwordFromUI' = [passwordFromUI EXCEPT ![s] = password]
  /\ alert' = NoAlert
  /\ UNCHANGED <<storeVars, currentUser, tabsMount, loginErrorFromUI,
                 tab, detailsVars, favVars, ops, events>>

\* LoginScreen.loginPressed up to await signInWithEmailAndPassword, called
\* with the email and the password typed at the press
loginPressed(s) ==
  /\ CanAct(s)
  /\ tab[s] = "Login"
  /\ Start([Sent("signIn", s, tabsMount[s], "-", InitialDetails, "signIn", << >>)
              EXCEPT !.uid = accountOf(emailFromUI[s], passwordFromUI[s])])
  /\ alert' = NoAlert
  /\ events' = events + 1
  /\ UNCHANGED <<storeVars, authVars, tab, detailsVars, favVars>>

\* reset(): the three setters with ""
reset(s) ==
  /\ emailFromUI' = [emailFromUI EXCEPT ![s] = ""]
  /\ passwordFromUI' = [passwordFromUI EXCEPT ![s] = ""]
  /\ loginErrorFromUI' = [loginErrorFromUI EXCEPT ![s] = ""]

\* the sign-in resolves: auth.currentUser is the user, and
\* navigate("CountriesTabNavigator") shows the tabs (they are mounted when the
\* Login screen was on top, and are already there otherwise)
loginPressedAfterSignIn(op) ==
  /\ Awaiting(op, "signIn")
  /\ op.uid # NoUser
  /\ currentUser' = [currentUser EXCEPT ![op.sess] = op.uid]
  /\ tab' = [tab EXCEPT ![op.sess] = IF @ = "Login" THEN "Countries" ELSE @]
  /\ reset(op.sess)
  /\ Finish(op)
  /\ alert' = NoAlert
  /\ UNCHANGED <<storeVars, tabsMount, detailsVars, favVars, events>>

LoginError == "Error: invalid login! Please try again"

\* a catch block that also calls reset(): what was typed is gone
loginPressedCatchResets(op) ==
  /\ Awaiting(op, "signIn")
  /\ reset(op.sess)
  /\ Finish(op)
  /\ alert' = NoAlert
  /\ UNCHANGED <<storeVars, currentUser, tabsMount, tab, detailsVars, favVars, events>>

\* the sign-in rejects (credentials that match no account, or the network):
\* the catch block sets the error text, nothing navigates
loginPressedCatch(op) ==
  /\ Awaiting(op, "signIn")
  /\ loginErrorFromUI' = [loginErrorFromUI EXCEPT ![op.sess] = LoginError]
  /\ Finish(op)
  /\ alert' = NoAlert
  /\ UNCHANGED <<storeVars, currentUser, tabsMount, emailFromUI, passwordFromUI,
                 tab, detailsVars, favVars, events>>

\* the Logout button in the header of the Countries List and of the Favorite
\* Countries screen: logoutPressed up to await signOut(auth)
logoutPressed(s) ==
  /\ CanAct(s)
  /\ tab[s] \in {"Countries", "Favorites"}
  /\ StartOrCatch(s, Sent("signOut", s, tabsMount[s], "-", InitialDetails, "signOut", << >>),
                  "There is no user to logout!", "-")
  /\ events' = events + 1
  /\ UNCHANGED <<storeVars, authVars, tab, detailsVars, favVars>>

\* navigate("Login") pops the tab navigator off the stack: its screens are
\* unmounted and their state is gone; the next mount starts from useState
BackToLogin(s) ==
  /\ tab' = [tab EXCEPT ![s] = "Login"]
  /\ tabsMount' = [tabsMount EXCEPT ![s] = @ + 1]
  /\ detailsMount' = [detailsMount EXCEPT ![s] = @ + 1]
  /\ detailsFetch' = [detailsFetch EXCEPT ![s] = "none"]
  /\ cca2FromPreviousScreen' = [cca2FromPreviousScreen EXCEPT ![s] = "-"]
  /\ countryDetailsFromAPI' = [countryDetailsFromAPI EXCEPT ![s] = InitialDetails]
  /\ countryAlreadyAdded' = [countryAlreadyAdded EXCEPT ![s] = FALSE]
  /\ errorFromAPI' = [errorFromAPI EXCEPT ![s] = FALSE]
  /\ countriesFromDB' = [countriesFromDB EXCEPT ![s] = << >>]
  /\ emptyFavoritesFromDB' = [emptyFavoritesFromDB EXCEPT ![s] = TRUE]
  /\ listOwner' = [listOwner EXCEPT ![s] = NoUser]
  /\ reportedRemoved' = [reportedRemoved EXCEPT ![s] = {}]

\* the sign-out resolves: auth.currentUser is null, then navigate("Login").
\* When the navigator whose header held the button is gone by then (a second
\* press, a sign-in in between), the navigation object is stale and the call
\* may or may not navigate
logoutPressedAfterSignOut(op) ==
  /\ Awaiting(op, "signOut")
  /\ currentUser' = [currentUser EXCEPT ![op.sess] = NoUser]
  /\ \/ tab[op.sess] # "Login" /\ BackToLogin(op.sess)
     \/ /\ tab[op.sess] = "Login" \/ ~FavMounted(op)
        /\ UNCHANGED <<tab, tabsMount, detailsVars, favVars>>
  /\ Finish(op)
  /\ alert' = NoAlert
  /\ UNCHANGED <<storeVars, loginVars, events>>

\* the sign-out rejects
logoutPressedCatch(op) ==
  /\ Awaiting(op, "signOut")
  /\ Finish(op)
  /\ alert' = Alert(op.sess, "Error while logging out!", "-")
  /\ UNCHANGED <<storeVars, authVars, tab, detailsVars, favVars, events>>

\* ------------------------------------------------------- specification
Next ==
  \/ \E s \in Sessions, c \in Browsed : rowClicked(s, c)
  \/ \E s \in Sessions : getCountryDetailsOk(s)
  \/ \E s \in Sessions : getCountryDetailsFails(s)
  \/ \E s \in Sessions : pressAdd(s)
  \/ \E s \in Sessions : focusFavorites(s)
  \/ \E s \in Sessions : focusCountries(s)
  \/ \E s \in Sessions, k \in 1..Cardinality(Codes) : pressDelete(s, k)
  \/ \E op \in InFlight : storeGetDoc(op)
  \/ \E op \in InFlight : storeSetDoc(op)
  \/ \E op \in InFlight : storeUpdateDoc(op)
  \/ \E op \in InFlight : storeDeleteDoc(op)
  \/ \E op \in InFlight : addCountryToFavoritesAfterGetDoc(op)
  \/ \E op \in InFlight : addCountryToFavoritesAfterSetDoc(op)
  \/ \E op \in InFlight : addCountryToFavoritesCatch(op)
  \/ \E op \in InFlight : getCountryFromDBAfterGetDoc(op)
  \/ \E op \in InFlight : getCountryFromDBCatch(op)
  \/ \E op \in InFlight : getCountriesFromDBAfterGetDoc(op)
  \/ \E op \in InFlight : getCountriesFromDBCatch(op)
  \/ \E op \in InFlight : deleteCountryFromFavoritesAfterUpdateDoc(op)
  \/ \E op \in InFlight : deleteCountryFromFavoritesAfterDeleteDoc(op)
  \/ \E op \in InFlight : deleteCountryFromFavoritesCatch(op)

Spec == Init /\ [][Next]_vars

\* ------------------------------------------ a run that starts in mid-use
\* Session s1 is signed in as u1 and looks at its two favourites.  Session s2
\* either has loaded them too and has the details of Canada open in the
\* Countries tab (it shows either tab), or is a freshly launched app showing
\* the Login screen.
LoadedList == DetailsSeq(<<"US", "MX">>)

InitLoaded ==
  /\ store = [u \in Users |-> IF u = "u1" THEN Doc(LoadedList) ELSE NoDoc]
  /\ \E launched \in BOOLEAN, shown \in {"Countries", "Favorites"} :
       LET in(s) == s = "s1" \/ ~launched
           open(s) == s = "s2" /\ ~launched
       IN /\ currentUser = [s \in Sessions |-> IF in(s) THEN "u1" ELSE NoUser]
          /\ tab = [s \in Sessions |-> IF ~in(s) THEN "Login"
                                       ELSE IF s = "s2" THEN shown ELSE "Favorites"]
          /\ countriesFromDB = [s \in Sessions |-> IF in(s) THEN LoadedList ELSE << >>]
          /\ emptyFavoritesFromDB = [s \in Sessions |-> ~in(s)]
          /\ listOwner = [s \in Sessions |-> IF in(s) THEN "u1" ELSE NoUser]
          /\ detailsMount = [s \in Sessions |-> IF open(s) THEN 1 ELSE 0]
          /\ detailsFetch = [s \in Sessions |-> IF open(s) THEN "done" ELSE "none"]
          /\ cca2FromPreviousScreen = [s \in Sessions |-> IF open(s) THEN "CA" ELSE "-"]
          /\ countryDetailsFromAPI =
               [s \in Sessions |-> IF open(s) THEN countryDetails("CA") ELSE InitialDetails]
  /\ tabsMount = [s \in Sessions |-> 0]
  /\ emailFromUI = [s \in Sessions |-> ""]
  /\ passwordFromUI = [s \in Sessions |-> ""]
  /\ loginErrorFromUI = [s \in Sessions |-> ""]
  /\ reportedRemoved = [s \in Sessions |-> {}]
  /\ countryAlreadyAdded = [s \in Sessions |-> FALSE]
  /\ errorFromAPI = [s \in Sessions |-> FALSE]
  /\ ops = EmptyBag
  /\ alert = NoAlert
  /\ events = 0

NextLoaded ==
  \/ Next
  \/ \E s \in Sessions, email \in Emails : onChangeText(s, email, Password)
  \/ \E s \in Sessions : loginPressed(s)
  \/ \E s \in Sessions : logoutPressed(s)
  \/ \E op \in InFlight : loginPressedAfterSignIn(op)
  \/ \E op \in InFlight : loginPressedCatch(op)
  \/ \E op \in InFlight : logoutPressedAfterSignOut(op)
  \/ \E op \in InFlight : logoutPressedCatch(op)

SpecLoaded == InitLoaded /\ [][NextLoaded]_vars

\* --------------------------------------------- a run in which calls end
\* Every call to the store is answered or rejected, and the JavaScript event
\* loop runs the continuation of an async function whose awaited promise has
\* settled: whenever an async function is in flight one of them takes its
\* next step.  No user gesture is ever forced.
OpStep(op) ==
  \/ storeGetDoc(op) \/ storeSetDoc(op) \/ storeUpdateDoc(op) \/ storeDeleteDoc(op)
  \/ addCountryToFavoritesAfterGetDoc(op) \/ addCountryToFavoritesAfterSetDoc(op)
  \/ addCountryToFavoritesCatch(op)
  \/ getCountryFromDBAfterGetDoc(op) \/ getCountryFromDBCatch(op)
  \/ getCountriesFromDBAfterGetDoc(op) \/ getCountriesFromDBCatch(op)
  \/ deleteCountryFromFavoritesAfterUpdateDoc(op)
  \/ deleteCountryFromFavoritesAfterDeleteDoc(op)
  \/ deleteCountryFromFavoritesCatch(op)

CallsEnd == \E op \in InFlight : OpStep(op)

\* one device in use: s1 is signed in as u1 and shows the Countries tab, the
\* app of s2 has just been launched and shows the Login screen
InitOneInUse ==
  /\ store \in [Users -> ReachableDocs]
  /\ \A u \in Users : u # "u1" => store[u] = NoDoc
  /\ currentUser = [s \in Sessions |-> IF s = "s1" THEN "u1" ELSE NoUser]
  /\ tab = [s \in Sessions |-> IF s = "s1" THEN "Countries" ELSE "Login"]
  /\ tabsMount = [s \in Sessions |-> 0]
  /\ emailFromUI = [s \in Sessions |-> ""]
  /\ passwordFromUI = [s \in Sessions |-> ""]
  /\ loginErrorFromUI = [s \in Sessions |-> ""]
  /\ detailsMount = [s \in Sessions |-> 0]
  /\ detailsFetch = [s \in Sessions |-> "none"]
  /\ cca2FromPreviousScreen = [s \in Sessions |-> "-"]
  /\ countryDetailsFromAPI = [s \in Sessions |-> InitialDetails]
  /\ countryAlreadyAdded = [s \in Sessions |-> FALSE]
  /\ errorFromAPI = [s \in Sessions |-> FALSE]
  /\ countriesFromDB = [s \in Sessions |-> << >>]
  /\ emptyFavoritesFromDB = [s \in Sessions |-> TRUE]
  /\ listOwner = [s \in Sessions |-> NoUser]
  /\ reportedRemoved = [s \in Sessions |-> {}]
  /\ ops = EmptyBag
  /\ alert = NoAlert
  /\ events = 0

SpecFair == InitOneInUse /\ [][Next]_vars /\ WF_vars(CallsEnd)

\* ================================================================ claims
\* what the claims say, written without the operators that model the code
HasCode(doc, code) ==
  doc.exists /\ \E k \in 1..Len(doc.countries) : doc.countries[k].cca2 = code

RECURSIVE Without(_, _)
\* the list with every entry of the code taken out, the rest in order
Without(list, code) ==
  IF list = << >> THEN << >>
  ELSE IF Head(list).cca2 = code THEN Without(Tail(list), code)
       ELSE <<Head(list)>> \o Without(Tail(list), code)

CountriesIn(doc) == IF doc.exists THEN doc.countries ELSE << >>

\* this step runs code of the async call op
Acted(op) == op \in InFlight /\ CopiesIn(op, ops') < CopiesIn(op, ops)
\* this step is the last of the async call op: it returns
Returned(op) == op \in InFlight /\ ops' = ops (-) SetToBag({op})
\* this step is the store carrying out the write that op awaits
Written(op) ==
  /\ op \in InFlight /\ op.phase = "sent"
  /\ ops' = (ops (-) SetToBag({op})) (+) SetToBag({[op EXCEPT !.phase = "resolved"]})
\* this step is the store answering the call that op awaits
Answered(op) ==
  /\ op \in InFlight /\ op.phase = "sent"
  /\ \E d \in {op.snap, store[op.uid]} :
       ops' = (ops (-) SetToBag({op})) (+)
                SetToBag({[op EXCEPT !.phase = "resolved", !.snap = d]})
\* this step runs op on from an await whose call was rejected
Rejected(op) == op.phase = "sent" /\ Acted(op) /\ ~Answered(op)
\* this step starts the async call op
Started(op) == CopiesIn(op, ops') > CopiesIn(op, ops) /\ op.phase = "sent"

\* C1: a user's FavoritesDocument is absent or has a non-empty countries
\* sequence, in every reachable state, whatever the sessions did and however
\* their adds, removes, queries and refreshes interleaved.
DocumentNeverEmpty ==
  \A u \in Users : store[u].exists => Len(store[u].countries) > 0

\* the last favourite was removed: the document is gone, the screen is empty
LastFavoriteRemoved ==
  /\ alert.msg = "was deleted from your favorites"
  /\ ~store["u1"].exists
  /\ emptyFavoritesFromDB[alert.sess]

\* C2: the stored countries sequence never holds two entries with the same
\* code, after any sequence and interleaving of adds and removes.
NoDuplicateCodes ==
  \A u \in Users : \A j, k \in 1..Len(store[u].countries) :
    j # k => store[u].countries[j].cca2 # store[u].countries[k].cca2

\* an add has just put a further country into an existing document
AddedToExistingDocument ==
  /\ alert.msg = "has been added"
  /\ Len(store["u1"].countries) >= 2
  /\ alert.name \in {store["u1"].countries[k].name : k \in 1..Len(store["u1"].countries)}

\* C3: an add of a country whose code is not stored, which runs alone (the
\* store is still what the add read) and succeeds, leaves the document with
\* the country appended at the end of what was stored (nothing, when there was
\* no document), a query of that code then finds it, and the add reports
\* "has been added".
AddAppendsCountry ==
  [][\A op \in InFlight :
       /\ ( /\ op.kind = "add" /\ op.call = "setDoc" /\ Written(op)
            /\ op.snap = store[op.uid]
            /\ ~HasCode(store[op.uid], op.country.cca2) )
          => /\ store'[op.uid] = Doc(Append(CountriesIn(store[op.uid]), op.country))
             /\ countryFound(store'[op.uid], op.country.cca2)
       /\ ( op.kind = "add" /\ op.call = "setDoc" /\ op.phase = "resolved" /\ Acted(op) )
          => /\ Returned(op)
             /\ alert' = Alert(op.sess, "has been added", op.country.name)
    ]_vars

\* Canada was appended to the single favourite, and nothing else is running
CanadaAppended ==
  /\ alert.msg = "has been added" /\ alert.name = "Canada"
  /\ store["u1"] = Doc(DetailsSeq(<<"US", "CA">>))
  /\ countryAlreadyAdded[alert.sess]
  /\ ops = EmptyBag

\* C4: an add whose fresh read holds an entry with the country's code issues
\* no write, leaves the store as it is and reports "already in your
\* favorites": a second add of a country changes nothing.
AlreadyPresentWritesNothing ==
  [][\A op \in InFlight :
       ( /\ op.kind = "add" /\ op.call = "getDoc" /\ op.phase = "resolved"
         /\ HasCode(op.snap, op.country.cca2)
         /\ Acted(op) )
       => /\ Returned(op)
          /\ store' = store
          /\ alert' = Alert(op.sess, "is already in your favorites", op.country.name)
    ]_vars

\* an add found its country stored and said so; the document is untouched
AlreadyPresentReported ==
  /\ alert.msg = "is already in your favorites" /\ alert.name = "United States"
  /\ store["u1"] = Doc(DetailsSeq(<<"US">>))
  /\ ops = EmptyBag

\* C5: a remove on a screen whose cached list is the single entry c calls
\* deleteDoc; once the store has carried it out the document is absent and a
\* query of c finds nothing; the remove then reports the deletion and puts the
\* screen in the empty state.
RemoveLastDeletesDocument ==
  [][/\ \A op \in BagToSet(ops') :
          ( /\ op.kind = "delete" /\ Started(op)
            /\ countriesFromDB[op.sess] = <<op.country>> )
          => op.call = "deleteDoc"
     /\ \A op \in InFlight :
          /\ ( op.kind = "delete" /\ op.call = "deleteDoc" /\ Written(op) )
             => /\ ~store'[op.uid].exists
                /\ ~countryFound(store'[op.uid], op.country.cca2)
          /\ ( op.kind = "delete" /\ op.call = "deleteDoc" /\ op.phase = "resolved"
               /\ Acted(op) )
             => /\ Returned(op)
                /\ emptyFavoritesFromDB'[op.sess]
                /\ alert' = Alert(op.sess, "was deleted from your favorites", op.country.name)
    ]_vars

\* the only favourite of the cached list was removed
OnlyFavoriteRemoved ==
  /\ alert.msg = "was deleted from your favorites"
  /\ Len(countriesFromDB[alert.sess]) = 1
  /\ countriesFromDB[alert.sess][1].name = alert.name
  /\ emptyFavoritesFromDB[alert.sess]
  /\ store["u1"] = NoDoc

\* C6: a remove on a screen whose cached list has two or more entries calls
\* updateDoc with the cached list less the entry of that code, the others in
\* their order; the store then holds exactly that list in a present document;
\* the remove then reports the deletion and shows that list.
RemoveOneKeepsOrder ==
  [][/\ \A op \in BagToSet(ops') :
          ( /\ op.kind = "delete" /\ Started(op)
            /\ Len(countriesFromDB[op.sess]) >= 2 )
          => /\ op.call = "updateDoc"
             /\ op.upd = Without(countriesFromDB[op.sess], op.country.cca2)
     /\ \A op \in InFlight :
          /\ ( op.kind = "delete" /\ op.call = "updateDoc" /\ Written(op) )
             => store'[op.uid] = Doc(op.upd)
          /\ ( op.kind = "delete" /\ op.call = "updateDoc" /\ op.phase = "resolved"
               /\ Acted(op) )
             => /\ countriesFromDB'[op.sess] = op.upd
                /\ alert' = Alert(op.sess, "was deleted from your favorites", op.country.name)
    ]_vars

\* Canada was removed from between the United States and Mexico
CanadaRemovedFromMiddle ==
  /\ alert.msg = "was deleted from your favorites" /\ alert.name = "Canada"
  /\ store["u1"] = Doc(DetailsSeq(<<"US", "MX">>))
  /\ countriesFromDB[alert.sess] = DetailsSeq(<<"US", "MX">>)
  /\ ~emptyFavoritesFromDB[alert.sess]

\* C7: a query whose read succeeded sets the star exactly when the document it
\* read exists and holds an entry with the code, and leaves the star as it was
\* when there is no document or no such entry; on a screen whose star was
\* still off the star afterwards says whether the code is stored.
QueryYieldsMembership ==
  [][\A op \in InFlight :
       ( op.kind = "query" /\ op.phase = "resolved" /\ Acted(op) )
       => LET found == HasCode(op.snap, op.cca2)
              star == countryAlreadyAdded[op.sess]
          IN /\ Returned(op)
             /\ (found /\ Mounted(op)) => countryAlreadyAdded'[op.sess] = TRUE
             /\ ~found => countryAlreadyAdded'[op.sess] = star
             /\ (Mounted(op) /\ ~star) => countryAlreadyAdded'[op.sess] = found
    ]_vars

\* the star was set by the query of the freshly opened screen alone
StarSetByQuery ==
  /\ events = 1
  /\ \E s \in Sessions :
       /\ countryAlreadyAdded[s]
       /\ HasCode(store["u1"], cca2FromPreviousScreen[s])
  /\ ops = EmptyBag

\* C8: when the getDoc or the setDoc of an add is rejected, the add reports
\* "could not be added" and changes neither the store nor any state of the
\* screens; and the star goes from off to on only in the step that ends an
\* add whose setDoc the store carried out (or a query whose read succeeded),
\* never in an earlier step of the add and never in its catch block.
AddFailureLeavesNoPartialState ==
  [][/\ \A op \in InFlight :
          ( op.kind = "add" /\ Rejected(op) )
          => /\ Returned(op)
             /\ alert' = Alert(op.sess, "could not be added", op.country.name)
             /\ UNCHANGED <<store, detailsVars, favVars, tab>>
     /\ \A op \in InFlight :
          ( op.kind = "add" /\ Acted(op)
            /\ ~countryAlreadyAdded[op.sess] /\ countryAlreadyAdded'[op.sess] )
          => op.call = "setDoc" /\ op.phase = "resolved"
     /\ \A s \in Sessions :
          ( ~countryAlreadyAdded[s] /\ countryAlreadyAdded'[s] )
          => \E op \in InFlight :
               /\ Returned(op) /\ op.sess = s /\ op.phase = "resolved"
               /\ \/ op.kind = "add" /\ op.call = "setDoc"
                  \/ op.kind = "query"
    ]_vars

\* an add of fetched details failed; the star is off and the country not stored
AddFailedStarOff ==
  /\ alert.msg = "could not be added"
  /\ alert.name = countryDetailsFromAPI[alert.sess].name
  /\ alert.name # Undefined
  /\ ~countryAlreadyAdded[alert.sess]
  /\ ~HasCode(store["u1"], cca2FromPreviousScreen[alert.sess])

\* C9: when the updateDoc or the deleteDoc of a remove is rejected, the remove
\* reports "could not be deleted" and the cached list and the empty-state flag
\* are as before; a remove changes them only in the step after the store has
\* carried out its call.
RemoveFailureKeepsList ==
  [][\A op \in InFlight :
       /\ ( op.kind = "delete" /\ Rejected(op) )
          => /\ Returned(op)
             /\ alert' = Alert(op.sess, "could not be deleted", op.country.name)
             /\ UNCHANGED <<store, favVars, detailsVars, tab>>
       /\ ( op.kind = "delete" /\ Acted(op)
            /\ \/ countriesFromDB'[op.sess] # countriesFromDB[op.sess]
               \/ emptyFavoritesFromDB'[op.sess] # emptyFavoritesFromDB[op.sess] )
          => op.phase = "resolved"
    ]_vars

\* a remove failed; the screen still lists what is stored
RemoveFailedListKept ==
  /\ alert.msg = "could not be deleted"
  /\ store["u1"].exists
  /\ countriesFromDB[alert.sess] = store["u1"].countries
  /\ alert.name \in {countriesFromDB[alert.sess][k].name : k \in 1..Len(countriesFromDB[alert.sess])}
  /\ ~emptyFavoritesFromDB[alert.sess]

\* C10: a query only ever calls getDoc, no step of a query changes the store,
\* and when its read is rejected the query reports the error, changes no state
\* of the screens (the star stays as it was) and the star button still works:
\* the screen is mounted and pressing it starts an add.
QueryReadOnlyNonFatal ==
  /\ [](\A op \in InFlight : op.kind = "query" => op.call = "getDoc")
  /\ []( ( /\ alert.msg = "Error getting from the database"
           /\ events < MaxEvents
           /\ tab[alert.sess] = "Countries"
           /\ ~errorFromAPI[alert.sess] )
         => ENABLED pressAdd(alert.sess) )
  /\ [][\A op \in InFlight :
          ( op.kind = "query" /\ Acted(op) )
          => /\ store' = store
             /\ Rejected(op)
                => /\ Returned(op)
                   /\ alert' = Alert(op.sess, "Error getting from the database", op.cca2)
                   /\ UNCHANGED <<detailsVars, favVars, tab>>
    ]_vars

\* a query failed on a screen that shows the fetched country with the star off
QueryFailedScreenUsable ==
  /\ alert.msg = "Error getting from the database"
  /\ alert.name = cca2FromPreviousScreen[alert.sess]
  /\ countryDetailsFromAPI[alert.sess] # InitialDetails
  /\ ~countryAlreadyAdded[alert.sess]
  /\ ENABLED pressAdd(alert.sess)

\* C11: in one session at most one mutation (an add or a remove) is in flight
\* at any time: while one is between its start and its completion no second
\* one has started.
AtMostOneMutationInFlight ==
  \A op1, op2 \in InFlight :
    ( /\ op1.kind \in {"add", "delete"} /\ op2.kind \in {"add", "delete"}
      /\ op1.sess = op2.sess )
    => op1 = op2 /\ CopiesIn(op1, ops) = 1

\* C12: every write that an add or a remove issues carries a sequence computed
\* from a read of the store made inside that same operation: the step that
\* issues the write resumes the operation from its own resolved getDoc, and the
\* sequence is that snapshot with the country appended (add) or taken out
\* (remove), never a list cached by an earlier operation.
MutationWritesWhatItRead ==
  [][\A w \in BagToSet(ops') :
       ( /\ w.kind \in {"add", "delete"}
         /\ w.call \in {"setDoc", "updateDoc", "deleteDoc"}
         /\ Started(w) )
       => \E op \in InFlight :
            /\ op.kind = w.kind /\ op.sess = w.sess
            /\ op.call = "getDoc" /\ op.phase = "resolved" /\ Acted(op)
            /\ w.upd = IF w.kind = "add"
                       THEN Append(CountriesIn(op.snap), w.country)
                       ELSE Without(CountriesIn(op.snap), w.country.cca2)
    ]_vars

\* C13: the store gives last-writer-wins with no merge: the write of an add or
\* a remove leaves the user's document exactly as that write says (the
\* sequence it carries, or no document for a delete), whatever was stored, so
\* what another session wrote between this operation's read and its write is
\* gone; no other user's document changes.
LastWriterWins ==
  [][\A op \in InFlight :
       ( /\ op.kind \in {"add", "delete"}
         /\ op.call \in {"setDoc", "updateDoc", "deleteDoc"}
         /\ Written(op) )
       => /\ store'[op.uid] = IF op.call = "deleteDoc" THEN NoDoc ELSE Doc(op.upd)
          /\ \A u \in Users \ {op.uid} : store'[u] = store[u]
    ]_vars

\* the add of Canada succeeded in one session (its star is on), a remove of
\* the other session wrote its own list afterwards, and Canada is not stored
AddedCountryLost ==
  /\ ops = EmptyBag
  /\ \E s \in Sessions :
       /\ currentUser[s] = "u1"
       /\ cca2FromPreviousScreen[s] = "CA"
       /\ countryAlreadyAdded[s]
  /\ store["u1"] = Doc(DetailsSeq(<<"MX">>))

\* C14: the entry that an add writes at the end of the stored sequence carries
\* the country's code, name and capital and nothing else: no flag URL, no
\* latitude, no longitude.
AddStoresCodeNameCapitalOnly ==
  [][\A op \in InFlight :
       ( op.kind = "add" /\ op.call = "setDoc" /\ Written(op) )
       => LET stored == store'[op.uid].countries
              entry == stored[Len(stored)]
          IN entry = [cca2 |-> op.country.cca2, name |-> op.country.name,
                      capital |-> op.country.capital]
    ]_vars

\* C15: a session that is authenticated as user u issues a get, set, update or
\* delete only on the document of u; a remove writes a list that was read from
\* that same user's document; and a user's document changes only by the write
\* of an operation on that user's document.
OwnDocumentOnly ==
  [][/\ \A op \in BagToSet(ops') :
          ( /\ op.call \in {"getDoc", "setDoc", "updateDoc", "deleteDoc"}
            /\ Started(op) )
          => /\ SignedIn(op.sess) => op.uid = currentUser[op.sess]
             /\ op.kind = "delete" => listOwner[op.sess] = op.uid
     /\ \A u \in Users :
          store'[u] # store[u]
          => \E op \in InFlight :
               /\ op.call \in {"setDoc", "updateDoc", "deleteDoc"}
               /\ Written(op) /\ op.uid = u
    ]_vars

\* C16: a user's document comes into being only by the setDoc of an add: in
\* every step that takes a document from absent to present the store carries
\* out the setDoc of an add on that document; no query, refresh or remove does
\* it, a remove on a stale list after the document was deleted included.
OnlyAddCreatesDocument ==
  [][\A u \in Users :
       ( ~store[u].exists /\ store'[u].exists )
       => \E op \in InFlight :
            /\ op.kind = "add" /\ op.call = "setDoc" /\ op.uid = u
            /\ Written(op)
    ]_vars

\* a remove on a list of two, sent when the other session had deleted the
\* document or did so meanwhile, has failed and there is still no document
StaleRemoveRejected ==
  /\ alert.msg = "could not be deleted"
  /\ Len(countriesFromDB[alert.sess]) >= 2
  /\ ~emptyFavoritesFromDB[alert.sess]
  /\ \E s \in Sessions \ {alert.sess} : emptyFavoritesFromDB[s] /\ currentUser[s] = "u1"
  /\ currentUser[alert.sess] = "u1"
  /\ ~store["u1"].exists

\* C17: when a refresh whose read succeeded ends on a mounted favourites
\* screen, the screen shows the empty state exactly when the document it read
\* was absent or had no countries, and otherwise lists the countries it read.
RefreshShowsWhatItRead ==
  [][\A op \in InFlight :
       ( /\ op.kind = "refresh" /\ op.phase = "resolved" /\ Acted(op)
         /\ FavMounted(op) )
       => LET none == ~op.snap.exists \/ Len(op.snap.countries) = 0
          IN /\ emptyFavoritesFromDB'[op.sess] = none
             /\ ~none => countriesFromDB'[op.sess] = op.snap.countries
    ]_vars

\* C18: with a single session in use (the other one is a freshly launched app
\* that never signed in), once a remove has deleted the document and put the
\* favourites screen in the empty state (the flag is set, the old list still
\* in the state behind it), the screen stays in the empty state for as long as
\* the document is absent: no refresh started earlier brings the list back.
EmptyStateStays ==
  [][\A s \in Sessions :
       ( /\ \A r \in Sessions \ {s} : ~SignedIn(r) /\ tabsMount[r] = 0
         /\ SignedIn(s)
         /\ emptyFavoritesFromDB[s] /\ countriesFromDB[s] # << >>
         /\ ~store[currentUser[s]].exists )
       => emptyFavoritesFromDB'[s]
    ]_vars

\* C19: with a single session in use (the other one is a freshly launched app
\* that never signed in), once no operation is in flight, no country whose
\* removal was reported and which was not added since is in the stored
\* document.
RemovedStaysRemoved ==
  \A s \in Sessions :
    ( /\ \A r \in Sessions \ {s} : ~SignedIn(r) /\ tabsMount[r] = 0
      /\ SignedIn(s)
      /\ ops = EmptyBag )
    => \A c \in reportedRemoved[s] : ~HasCode(store[currentUser[s]], c)

\* C20: whenever no operation is in flight and the details screen mounted for
\* country c has its star on, the document of the signed-in user holds an
\* entry with the code of c.
StarMeansStored ==
  \A s \in Sessions :
    ( /\ ops = EmptyBag
      /\ SignedIn(s)
      /\ cca2FromPreviousScreen[s] \in Codes
      /\ countryAlreadyAdded[s] )
    => HasCode(store[currentUser[s]], cca2FromPreviousScreen[s])

\* C21: addCountryToFavorites is started only with a country whose details
\* fetch has completed successfully: at the step that starts an add, the
\* fetch of that details screen is done without error and the country handed
\* over has a defined code, name and capital (never while the fetch is
\* pending, never after it failed).
AddStartedWithFetchedCountry ==
  [][\A op \in BagToSet(ops') :
       ( /\ op.kind = "add" /\ op.call = "getDoc"
         /\ Started(op) )
       => /\ detailsFetch[op.sess] = "done"
          /\ ~errorFromAPI[op.sess]
          /\ op.country.cca2 # Undefined
          /\ op.country.name # Undefined
          /\ op.country.capital # Undefined
    ]_vars

\* the alerts with which an add and a remove end
Outcomes(kind) ==
  IF kind = "add"
  THEN {"has been added", "is already in your favorites", "could not be added"}
  ELSE {"was deleted from your favorites", "could not be deleted"}

\* this step is the last one of the add or remove op: none of its kind goes on
Completes(op) ==
  /\ Acted(op)
  /\ \A n \in BagToSet(ops') : n.kind = op.kind => CopiesIn(n, ops') <= CopiesIn(n, ops)

MutationPending(s, kind) == \E op \in InFlight : op.sess = s /\ op.kind = kind

SomeMutationPending ==
  \E s \in Sessions, kind \in {"add", "delete"} : MutationPending(s, kind)

\* C22: when every store call is answered or rejected, every started add and
\* every started remove completes (whenever some are in flight, a moment comes
\* at which none is), and it shows exactly one outcome: no alert
\* when it starts nor at any step before its last, and at its last step one
\* alert naming its country, which is added, already-present or add-failed
\* for an add and deleted or delete-failed for a remove.
MutationEndsWithOneOutcome ==
  /\ SomeMutationPending ~> ~SomeMutationPending
  /\ [][\A op \in InFlight \cup BagToSet(ops') :
         op.kind \in {"add", "delete"} =>
           /\ Started(op) => alert' = NoAlert
           /\ Acted(op) /\ ~Completes(op) => alert' = NoAlert
           /\ Completes(op) =>
                /\ alert'.sess = op.sess /\ alert'.name = op.country.name
                /\ alert'.msg \in Outcomes(op.kind)
      ]_vars

\* a remove has ended with its deleted alert while the refresh it started
\* without await is still in flight
RemoveEndedRefreshGoesOn ==
  \E s \in Sessions :
    /\ alert.sess = s /\ alert.msg = "was deleted from your favorites"
    /\ ~MutationPending(s, "delete")
    /\ \E op \in InFlight : op.sess = s /\ op.kind = "refresh"

\* this step is the return of a sign-in call of session s: it was authenticated
\* and the app went on to the tabs with a cleared form
SignedInAndCleared(s, op) ==
  /\ op.uid \in Users /\ currentUser'[s] = op.uid
  /\ tab'[s] # "Login"
  /\ emailFromUI'[s] = "" /\ passwordFromUI'[s] = "" /\ loginErrorFromUI'[s] = ""

\* or it failed: nobody is signed in or out, the screen stays, the error text
\* is there and what is typed is kept
FailedAndKept(s) ==
  /\ currentUser'[s] = currentUser[s]
  /\ tab'[s] = tab[s]
  /\ loginErrorFromUI'[s] = "Error: invalid login! Please try again"
  /\ emailFromUI'[s] = emailFromUI[s] /\ passwordFromUI'[s] = passwordFromUI[s]

\* C23: a session leaves the Login screen for the tabs only in the step in
\* which one of its sign-in calls returns successfully; and every sign-in call
\* that returns either succeeded, and then email, password and error text are
\* cleared, or failed, and then nothing navigates, the error text is set and
\* the typed email and password are kept.
LoginNavigatesOnSuccessOnly ==
  [][\A s \in Sessions :
       /\ (tab[s] = "Login" /\ tab'[s] # "Login") =>
            \E op \in InFlight :
              /\ op.kind = "signIn" /\ op.sess = s /\ Returned(op)
              /\ SignedInAndCleared(s, op)
       /\ \A op \in InFlight :
            (op.kind = "signIn" /\ op.sess = s /\ Returned(op)) =>
              (SignedInAndCleared(s, op) /\ ~FailedAndKept(s))
                \/ (FailedAndKept(s) /\ ~SignedInAndCleared(s, op))
    ]_vars

\* a sign-in with an email and a password typed in has failed: the error text
\* is shown on the Login screen and both fields still hold the text
LoginFailedFormKept ==
  \E s \in Sessions :
    /\ tab[s] = "Login"
    /\ loginErrorFromUI[s] # ""
    /\ emailFromUI[s] # "" /\ passwordFromUI[s] # ""

====
